---- MODULE Spec2Model ----
(***************************************************************************)
(* sqdu: the introspection engine (src/src/app.rs analyze_database,        *)
(* analyze_indexes, analyze_table_details) and the navigation state        *)
(* machine (App in src/src/app.rs, the key loop run_app and main in        *)
(* src/src/main.rs).                                                       *)
(*                                                                         *)
(* A Rust String is a sequence of one-character strings, so that the SQL   *)
(* engine's character-level operations (LIKE patterns, ORDER BY's byte     *)
(* order, identifier quoting) are computed and not assumed.  Option<T> is  *)
(* a sequence of length at most one: <<>> is None, <<x>> is Some(x).       *)
(* Result<T> is a record [ok, val].                                        *)
(***************************************************************************)
EXTENDS Integers, Sequences, FiniteSets, TLC

\* ------------------------------------------------------------------ bounds

\* Page bytes of one catalog object range over 1..MaxSize.
MaxSize == 2
\* The key loop takes scroll-down only below this offset.
MaxScroll == 2
\* The longest run of next that nexts counts.
MaxNexts == 4
\* The statement texts the parser is run on are made of at most MaxTokens
\* tokens.
MaxTokens == 4
\* The threads that scan the same database file at the same time.
NumThreads == 2

\* ------------------------------------------------------- Option and Result

None == <<>>
Some(x) == <<x>>
Ok(v) == [ok |-> TRUE, val |-> v]
Err == [ok |-> FALSE, val |-> <<>>]

\* ----------------------------------------------------------------- strings

\* The printable ASCII characters in code order, the first being code 32
\* (the grave accent, code 96, which no name of the model holds, is spelled out).
Ascii ==
  << " ", "!", "\"", "#", "$", "%", "&", "'", "(", ")", "*", "+", ",", "-",
     ".", "/", "0", "1", "2", "3", "4", "5", "6", "7", "8", "9", ":", ";",
     "<", "=", ">", "?", "@", "A", "B", "C", "D", "E", "F", "G", "H", "I",
     "J", "K", "L", "M", "N", "O", "P", "Q", "R", "S", "T", "U", "V", "W",
     "X", "Y", "Z", "[", "\\", "]", "^", "_", "(grave)", "a", "b", "c", "d", "e",
     "f", "g", "h", "i", "j", "k", "l", "m", "n", "o", "p", "q", "r", "s",
     "t", "u", "v", "w", "x", "y", "z", "{", "|", "}", "~" >>

\* The byte value of every printable ASCII character.
AsciiCode ==
  [c \in {Ascii[i] : i \in 1..Len(Ascii)} |->
     31 + (CHOOSE i \in 1..Len(Ascii) : Ascii[i] = c)]
Code(c) == AsciiCode[c]

\* ASCII case folding, as the engine's LIKE applies it: 'A'..'Z' to 'a'..'z'.
Fold(c) == IF Code(c) >= 65 /\ Code(c) <= 90 THEN Ascii[Code(c) + 32 - 31] ELSE c

\* Byte-wise (BINARY collation) strict order of two strings.
RECURSIVE StrLess(_, _)
StrLess(a, b) ==
  IF b = <<>> THEN FALSE
  ELSE IF a = <<>> THEN TRUE
  ELSE IF Code(Head(a)) # Code(Head(b)) THEN Code(Head(a)) < Code(Head(b))
  ELSE StrLess(Tail(a), Tail(b))

\* Rust str::starts_with.
StartsWith(s, prefix) ==
  Len(s) >= Len(prefix) /\ SubSeq(s, 1, Len(prefix)) = prefix

\* The engine's  text LIKE pattern : '%' matches any run of characters, '_'
\* matches exactly one character, every other character matches itself up
\* to ASCII case.
RECURSIVE Like(_, _)
Like(text, pattern) ==
  IF pattern = <<>> THEN text = <<>>
  ELSE IF Head(pattern) = "%"
    THEN \E k \in 0..Len(text) :
           Like(SubSeq(text, k + 1, Len(text)), Tail(pattern))
  ELSE IF text = <<>> THEN FALSE
  ELSE /\ \/ Head(pattern) = "_"
          \/ Head(pattern) = Head(text)
          \/ Fold(Head(pattern)) = Fold(Head(text))
       /\ Like(Tail(text), Tail(pattern))

\* The pattern of the three catalog queries: 'sqlite_%'.
InternalPattern == <<"s", "q", "l", "i", "t", "e", "_", "%">>
\* The reserved prefix of engine-internal objects: "sqlite_".
ReservedPrefix == <<"s", "q", "l", "i", "t", "e", "_">>

\* The identifier the engine reads from a name placed between double quotes
\* by format!("\"{}\"", name): a doubled quote stands for one quote, a lone
\* quote ends the identifier and leaves text the statement cannot parse.
RECURSIVE QuotedIdent(_)
QuotedIdent(name) ==
  IF name = <<>> THEN Ok(<<>>)
  ELSE IF Head(name) # "\"" THEN
    LET rest == QuotedIdent(Tail(name))
    IN IF rest.ok THEN Ok(<<Head(name)>> \o rest.val) ELSE Err
  ELSE IF Len(name) >= 2 /\ name[2] = "\"" THEN
    LET rest == QuotedIdent(SubSeq(name, 3, Len(name)))
    IN IF rest.ok THEN Ok(<<"\"">> \o rest.val) ELSE Err
  ELSE Err

\* ------------------------------------------------------- the database file

\* Names of the catalog objects the databases of the model are built from.
TblA == <<"a">>
TblB == <<"b">>
TblC == <<"c">>
\* A user table whose name resembles the reserved prefix but lacks the '_'.
TblData ==
  <<"s", "q", "l", "i", "t", "e", "d", "a", "t", "a">>
\* The engine's own table of AUTOINCREMENT counters.
TblSeq ==
  <<"s", "q", "l", "i", "t", "e", "_", "s", "e", "q", "u", "e", "n", "c",
    "e">>
\* A user table whose name holds a double quote.
TblQuote == <<"q", "\"", "t">>
Ix1 == <<"i", "x", "1">>
Ix2 == <<"i", "x", "2">>
\* The index the engine synthesizes for a PRIMARY KEY or UNIQUE constraint.
AutoIx ==
  <<"s", "q", "l", "i", "t", "e", "_", "a", "u", "t", "o", "i", "n", "d",
    "e", "x", "_", "a", "_", "1">>
\* A name no database of the model holds.
NoSuch ==
  <<"n", "o", "s", "u", "c", "h">>

SqlCreateTable ==
  <<"C", "R", "E", "A", "T", "E", " ", "T", "A", "B", "L", "E", " ">>
SqlIx1 ==
  <<"C", "R", "E", "A", "T", "E", " ", "U", "N", "I", "Q", "U", "E", " ",
    "I", "N", "D", "E", "X", " ", "i", "x", "1", " ", "O", "N", " ", "a",
    "(", "x", ")", " ", "W", "H", "E", "R", "E", " ", "x", " ", ">", " ",
    "0">>
SqlIx2 ==
  <<"C", "R", "E", "A", "T", "E", " ", "I", "N", "D", "E", "X", " ", "i",
    "x", "2", " ", "O", "N", " ", "a", "(", "y", ")">>

\* One row of the catalog sqlite_master.
TableEntry(name) ==
  [type |-> "table", name |-> name, tbl_name |-> name,
   sql |-> Some(SqlCreateTable \o name \o <<"(", "x", ")">>)]
IndexEntry(name, tbl, sql) ==
  [type |-> "index", name |-> name, tbl_name |-> tbl, sql |-> sql]

\* Every catalog row a database of the model may hold, in creation (rowid)
\* order; ix2 is created before ix1, so creation order is not name order.
Candidates ==
  << TableEntry(TblC),
     TableEntry(TblA),
     IndexEntry(AutoIx, TblA, None),
     IndexEntry(Ix2, TblA, Some(SqlIx2)),
     IndexEntry(Ix1, TblA, Some(SqlIx1)),
     TableEntry(TblSeq),
     TableEntry(TblData),
     TableEntry(TblB),
     TableEntry(TblQuote) >>

\* The rows of Candidates at the positions P, in order.
RECURSIVE Pick(_, _)
Pick(P, i) ==
  IF i > Len(Candidates) THEN <<>>
  ELSE (IF i \in P THEN <<Candidates[i]>> ELSE <<>>) \o Pick(P, i + 1)

\* An index exists only with its table.
WellFormed(master) ==
  \A i \in 1..Len(master) :
    master[i].type = "index" =>
      \E j \in 1..Len(master) :
        master[j].type = "table" /\ master[j].name = master[i].tbl_name

NamesOf(master) == {master[i].name : i \in 1..Len(master)}
TablesOf(master) ==
  {master[i].name : i \in {j \in 1..Len(master) : master[j].type = "table"}}

\* The database files of the model: the catalog (master, in rowid order),
\* the bytes of the pages of each object as the statistics view dbstat sums
\* them (pages), the rows of each table (rows: as many as its name has
\* characters), and whether the engine was built with the statistics view
\* at all (dbstat; without it no page is ever read, so those files hold
\* one byte unit per object).
Database(m, pg, st) ==
  [master |-> m, pages |-> pg, rows |-> [t \in TablesOf(m) |-> Len(t)],
   dbstat |-> st]

\* The page bytes of the objects of the catalog m: those of the objects in
\* sized range over 1..MaxSize, every other object holds one byte unit.
PagesOver(m, sized) ==
  { [n \in NamesOf(m) |-> IF n \in sized THEN f[n] ELSE 1] :
      f \in [sized \cap NamesOf(m) -> 1..MaxSize] }

DatabasesOver(masters, sized) ==
  UNION { {Database(m, pg, TRUE) : pg \in PagesOver(m, sized)} \cup
          {Database(m, [n \in NamesOf(m) |-> 1], FALSE)} : m \in masters }

\* Every catalog over Candidates.
Masters ==
  { m \in {Pick(P, 1) : P \in SUBSET (1..Len(Candidates))} : WellFormed(m) }

\* ------------------------------------------------- the introspection engine

\* A fault is one query of one engine call that the storage engine fails
\* (an I/O error, a busy database): [q |-> the query, on |-> its object].
Fault(q, on) == [q |-> q, on |-> on]
Fails(faults, q, on) == Fault(q, on) \in faults
\* The object of a query that has none (open, the catalog enumerations).
NoObject == <<>>

\* ORDER BY name: the names of S in ascending byte order.
RECURSIVE OrderByName(_)
OrderByName(S) ==
  IF S = {} THEN <<>>
  ELSE LET m == CHOOSE x \in S : \A y \in S \ {x} : StrLess(x, y)
       IN <<m>> \o OrderByName(S \ {m})

\* The rows of the catalog that satisfy keep, in rowid order.
RowsWhere(master, keep(_)) == SelectSeq(master, keep)

\* The sum of a sequence of numbers.
RECURSIVE SumSeq(_)
SumSeq(s) == IF s = <<>> THEN 0 ELSE Head(s) + SumSeq(Tail(s))

\* SUM(pgsize) FROM dbstat over the objects named in names: None for NULL,
\* the sum over no row.
RECURSIVE SumPgsize(_, _)
SumPgsize(db, names) ==
  IF names \cap DOMAIN db.pages = {} THEN None
  ELSE LET n == CHOOSE x \in names \cap DOMAIN db.pages : TRUE
           rest == SumPgsize(db, names \ {n})
       IN Some(db.pages[n] + (IF rest = None THEN 0 ELSE rest[1]))

\* Option::unwrap_or / Result::unwrap_or on a query's outcome.
UnwrapOr(r, default) == IF r.ok THEN r.val ELSE default

\* SELECT name FROM sqlite_master WHERE type='table'
\*   AND name NOT LIKE 'sqlite_%' ORDER BY name
TableNamesQuery(db) ==
  LET keep(e) == e.type = "table" /\ ~Like(e.name, InternalPattern)
      rows == RowsWhere(db.master, keep)
  IN OrderByName({rows[i].name : i \in 1..Len(rows)})

\* SELECT COUNT(*) FROM "<table_name>"
RowCountQuery(db, faults, table_name) ==
  LET id == QuotedIdent(table_name)
  IN IF Fails(faults, "row_count", table_name) THEN Err
     ELSE IF ~id.ok THEN Err
     ELSE IF id.val \notin DOMAIN db.rows THEN Err
     ELSE Ok(db.rows[id.val])

\* SELECT SUM(pgsize) FROM dbstat WHERE name = ?1, read as u64: the read
\* of NULL fails.
TableSizeQuery(db, faults, table_name) ==
  IF Fails(faults, "size", table_name) \/ ~db.dbstat THEN Err
  ELSE LET sum == SumPgsize(db, {table_name})
       IN IF sum = None THEN Err ELSE Ok(sum[1])

\* A variant of IndexCountQuery without the name filter.
IndexCountQueryUnfiltered(db, faults, table_name) ==
  LET keep(e) == e.type = "index" /\ e.tbl_name = table_name
  IN IF Fails(faults, "index_count", table_name) THEN Err
     ELSE Ok(Len(RowsWhere(db.master, keep)))

\* SELECT COUNT(*) FROM sqlite_master WHERE type='index' AND tbl_name=?1
\*   AND name NOT LIKE 'sqlite_%'
IndexCountQuery(db, faults, table_name) ==
  LET keep(e) == /\ e.type = "index"
                 /\ e.tbl_name = table_name
                 /\ ~Like(e.name, InternalPattern)
  IN IF Fails(faults, "index_count", table_name) THEN Err
     ELSE Ok(Len(RowsWhere(db.master, keep)))

\* SELECT COALESCE(SUM(pgsize), 0) FROM dbstat WHERE name IN
\*   (SELECT name FROM sqlite_master WHERE type='index' AND tbl_name=?1)
IndexSizeQuery(db, faults, table_name) ==
  IF Fails(faults, "index_size", table_name) \/ ~db.dbstat THEN Err
  ELSE LET keep(e) == e.type = "index" /\ e.tbl_name = table_name
           rows == RowsWhere(db.master, keep)
           sum == SumPgsize(db, {rows[i].name : i \in 1..Len(rows)})
       IN Ok(IF sum = None THEN 0 ELSE sum[1])

\* The TableInfo of one enumerated table: four queries, each unwrap_or(0).
TableInfoOf(db, faults, table_name) ==
  [name |-> table_name,
   size_bytes |-> UnwrapOr(TableSizeQuery(db, faults, table_name), 0),
   row_count |-> UnwrapOr(RowCountQuery(db, faults, table_name), 0),
   index_count |-> UnwrapOr(IndexCountQuery(db, faults, table_name), 0),
   index_size_bytes |-> UnwrapOr(IndexSizeQuery(db, faults, table_name), 0)]

\* A variant of InsertBySize that puts x before the elements equal to it:
\* the sort is no longer stable.
RECURSIVE InsertBySizeUnstable(_, _)
InsertBySizeUnstable(sorted, x) ==
  IF sorted = <<>> THEN <<x>>
  ELSE IF Head(sorted).size_bytes > x.size_bytes
    THEN <<Head(sorted)>> \o InsertBySizeUnstable(Tail(sorted), x)
  ELSE <<x>> \o sorted

\* s.sort_by(|a, b| b.size_bytes.cmp(&a.size_bytes)): the stable sort by
\* size descending.  InsertBySize puts x after every element that is not
\* smaller than it, so equal elements keep their order.
RECURSIVE InsertBySize(_, _)
InsertBySize(sorted, x) ==
  IF sorted = <<>> THEN <<x>>
  ELSE IF Head(sorted).size_bytes >= x.size_bytes
    THEN <<Head(sorted)>> \o InsertBySize(Tail(sorted), x)
  ELSE <<x>> \o sorted

RECURSIVE SortBySizeDesc(_)
SortBySizeDesc(s) ==
  IF s = <<>> THEN <<>>
  ELSE InsertBySize(SortBySizeDesc(SubSeq(s, 1, Len(s) - 1)), s[Len(s)])

\* A variant of analyze_database that propagates the failure of a metric
\* query instead of absorbing it.
analyze_database_propagating(db, faults) ==
  IF faults # {} THEN Err
  ELSE LET table_names == TableNamesQuery(db)
           tables == [i \in 1..Len(table_names) |->
                        TableInfoOf(db, faults, table_names[i])]
       IN Ok(SortBySizeDesc(tables))

\* analyze_database(db_path): ListTables.
analyze_database(db, faults) ==
  IF Fails(faults, "open", NoObject) THEN Err
  ELSE IF Fails(faults, "tables", NoObject) THEN Err
  ELSE LET table_names == TableNamesQuery(db)
           tables == [i \in 1..Len(table_names) |->
                        TableInfoOf(db, faults, table_names[i])]
       IN Ok(SortBySizeDesc(tables))

\* SELECT COALESCE(SUM(pgsize), 0) FROM dbstat WHERE name = ?1
OneIndexSizeQuery(db, faults, index_name) ==
  IF Fails(faults, "size", index_name) \/ ~db.dbstat THEN Err
  ELSE LET sum == SumPgsize(db, {index_name})
       IN Ok(IF sum = None THEN 0 ELSE sum[1])

\* ------------------------------------------- the index definition parser
\* The statement text is a UTF-8 string and the parser works on byte
\* offsets: a character outside ASCII is the sequence of its bytes, each
\* written as the hexadecimal byte between angle brackets.

\* U+0131, the dotless i, two bytes; its upper case is the one byte "I".
DotlessI == <<"<C4>", "<B1>">>
\* U+0149, the n preceded by an apostrophe, two bytes; its upper case is
\* the three bytes of U+02BC and "N".
NApostrophe == <<"<C5>", "<89>">>
UpperNApostrophe == <<"<CA>", "<BC>", "N">>
\* The bytes that continue a character: no character starts at them.
ContinuationBytes == {"<B1>", "<89>", "<BC>"}

IsAscii(c) == c \in DOMAIN AsciiCode

\* char::to_uppercase of one ASCII character.
UpperAscii(c) ==
  IF IsAscii(c) /\ Code(c) >= 97 /\ Code(c) <= 122
    THEN Ascii[Code(c) - 32 - 31]
    ELSE c

\* str::to_uppercase: a new string, not always of the length of s.
RECURSIVE to_uppercase(_)
to_uppercase(s) ==
  IF s = <<>> THEN <<>>
  ELSE IF Len(s) >= 2 /\ SubSeq(s, 1, 2) = DotlessI
    THEN <<"I">> \o to_uppercase(SubSeq(s, 3, Len(s)))
  ELSE IF Len(s) >= 2 /\ SubSeq(s, 1, 2) = NApostrophe
    THEN UpperNApostrophe \o to_uppercase(SubSeq(s, 3, Len(s)))
  ELSE <<UpperAscii(Head(s))>> \o to_uppercase(Tail(s))

\* The 0-based byte offsets at which pat occurs in s.
Occurrences(s, pat) ==
  {i \in 0..(Len(s) - Len(pat)) : SubSeq(s, i + 1, i + Len(pat)) = pat}
Least(S) == CHOOSE x \in S : \A y \in S : x <= y
Greatest(S) == CHOOSE x \in S : \A y \in S : x >= y

\* str::find and str::rfind: an Option of a byte offset.
find(s, pat) ==
  IF Occurrences(s, pat) = {} THEN None ELSE Some(Least(Occurrences(s, pat)))
rfind(s, pat) ==
  IF Occurrences(s, pat) = {} THEN None
  ELSE Some(Greatest(Occurrences(s, pat)))

\* str::is_char_boundary
is_char_boundary(s, i) ==
  \/ i = 0
  \/ i = Len(s)
  \/ i > 0 /\ i < Len(s) /\ s[i + 1] \notin ContinuationBytes

\* &s[a..b] panics unless a <= b <= s.len() and both are char boundaries.
SliceOk(s, a, b) ==
  /\ a <= b /\ b <= Len(s)
  /\ is_char_boundary(s, a) /\ is_char_boundary(s, b)
Slice(s, a, b) == SubSeq(s, a + 1, b)

\* str::trim
RECURSIVE trim_start(_)
trim_start(s) ==
  IF s # <<>> /\ Head(s) = " " THEN trim_start(Tail(s)) ELSE s
RECURSIVE trim_end(_)
trim_end(s) ==
  IF s # <<>> /\ s[Len(s)] = " "
    THEN trim_end(SubSeq(s, 1, Len(s) - 1))
    ELSE s
trim(s) == trim_start(trim_end(s))

\* A panic of the call: the thread unwinds and the call returns nothing.
Panic == [ok |-> FALSE, val |-> <<"panic">>]

Where == <<" ", "W", "H", "E", "R", "E", " ">>
Unique == <<"U", "N", "I", "Q", "U", "E">>
AutoColumns == <<"(", "a", "u", "t", "o", ")">>

\* The column list of a statement text: a Result, Panic when a slice
\* panics.
ParseColumns(sql_str) ==
  LET start == find(sql_str, <<"(">>)
      where_pos == find(to_uppercase(sql_str), Where)
      end == IF where_pos # None
               THEN (IF where_pos[1] < Len(sql_str) THEN where_pos[1]
                     ELSE Len(sql_str))
               ELSE Len(sql_str)
  IN IF start = None THEN Ok(<<>>)
     ELSE IF ~SliceOk(sql_str, start[1], end) THEN Panic
     ELSE LET close_paren == rfind(Slice(sql_str, start[1], end), <<")">>)
          IN IF close_paren = None THEN Ok(<<>>)
             ELSE IF ~SliceOk(sql_str, start[1] + 1, start[1] + close_paren[1])
               THEN Panic
             ELSE Ok(Slice(sql_str, start[1] + 1, start[1] + close_paren[1]))

\* The partial clause of a statement text: a Result of an Option.
ParsePartialClause(sql_str) ==
  LET where_start == find(to_uppercase(sql_str), Where)
  IN IF where_start = None THEN Ok(None)
     ELSE IF ~SliceOk(sql_str, where_start[1] + 7, Len(sql_str)) THEN Panic
     ELSE Ok(Some(trim(Slice(sql_str, where_start[1] + 7, Len(sql_str)))))

\* (is_unique, columns, partial_clause) of the sql column of an index row.
ParseIndexSql(sql) ==
  IF sql = None
    THEN Ok([is_unique |-> FALSE, columns |-> AutoColumns,
             partial_clause |-> None])
  ELSE LET sql_str == sql[1]
           columns == ParseColumns(sql_str)
           partial_clause == ParsePartialClause(sql_str)
       IN IF ~columns.ok \/ ~partial_clause.ok THEN Panic
          ELSE Ok([is_unique |->
                     Occurrences(to_uppercase(sql_str), Unique) # {},
                   columns |-> columns.val,
                   partial_clause |-> partial_clause.val])

\* The IndexInfo of one enumerated index whose statement parsed to parsed.
IndexInfoOf(db, faults, entry, parsed) ==
  [name |-> entry.name,
   size_bytes |-> UnwrapOr(OneIndexSizeQuery(db, faults, entry.name), 0),
   is_unique |-> parsed.is_unique,
   columns |-> parsed.columns,
   partial_clause |-> parsed.partial_clause]

\* SELECT name, sql FROM sqlite_master WHERE type='index' AND tbl_name=?1
\*   AND name NOT LIKE 'sqlite_%': the rows in rowid order.
IndexDataQuery(db, table_name) ==
  LET keep(e) == /\ e.type = "index"
                 /\ e.tbl_name = table_name
                 /\ ~Like(e.name, InternalPattern)
  IN RowsWhere(db.master, keep)

\* A variant of analyze_indexes that returns the indexes as enumerated,
\* without the sort.
analyze_indexes_unsorted(db, faults, table_name) ==
  IF Fails(faults, "open", NoObject) THEN Err
  ELSE IF Fails(faults, "indexes", NoObject) THEN Err
  ELSE LET index_data == IndexDataQuery(db, table_name)
           parsed == [i \in 1..Len(index_data) |->
                        ParseIndexSql(index_data[i].sql)]
       IN IF \E i \in 1..Len(index_data) : ~parsed[i].ok
            THEN Panic
            ELSE Ok([i \in 1..Len(index_data) |->
                       IndexInfoOf(db, faults, index_data[i], parsed[i].val)])

\* analyze_indexes(db_path, table_name): ListIndexes.
analyze_indexes(db, faults, table_name) ==
  IF Fails(faults, "open", NoObject) THEN Err
  ELSE IF Fails(faults, "indexes", NoObject) THEN Err
  ELSE LET index_data == IndexDataQuery(db, table_name)
           parsed == [i \in 1..Len(index_data) |->
                        ParseIndexSql(index_data[i].sql)]
           indexes == [i \in 1..Len(index_data) |->
                         IndexInfoOf(db, faults, index_data[i], parsed[i].val)]
       IN IF \E i \in 1..Len(index_data) : ~parsed[i].ok
            THEN Panic
            ELSE Ok(SortBySizeDesc(indexes))

\* The text analyze_table_details reports for a table without a statement.
DdlPlaceholder ==
  <<"-", "-", " ", "D", "D", "L", " ", "n", "o", "t", " ", "a", "v", "a", "i", "l", "a", "b", "l", "e">>

\* SELECT sql FROM sqlite_master WHERE type='table' AND name=?1, read as a
\* String: no row and a NULL statement are both errors of query_row.
DdlQuery(db, faults, table_name) ==
  LET keep(e) == e.type = "table" /\ e.name = table_name
      rows == RowsWhere(db.master, keep)
  IN IF Fails(faults, "ddl", table_name) THEN Err
     ELSE IF rows = <<>> THEN Err
     ELSE IF rows[1].sql = None THEN Err
     ELSE Ok(rows[1].sql[1])

\* PRAGMA table_info("<table_name>"): the columns in declaration order, no
\* row for a table the catalog does not hold.  Every table of the model
\* declares the one column x.
ColumnsQuery(db, faults, table_name) ==
  LET id == QuotedIdent(table_name)
  IN IF Fails(faults, "columns", table_name) THEN Err
     ELSE IF ~id.ok THEN Err
     ELSE IF id.val \notin TablesOf(db.master) THEN Ok(<<>>)
     ELSE Ok(<< [name |-> <<"x">>, col_type |-> <<>>, not_null |-> FALSE,
                 default_value |-> None, is_pk |-> FALSE] >>)

\* PRAGMA foreign_key_list("<table_name>"): no table of the model declares
\* a foreign key.
ForeignKeysQuery(db, faults, table_name) ==
  LET id == QuotedIdent(table_name)
  IN IF Fails(faults, "foreign_keys", table_name) THEN Err
     ELSE IF ~id.ok THEN Err
     ELSE Ok(<<>>)

\* SELECT name FROM sqlite_master WHERE type='trigger' AND tbl_name=?1
TriggersQuery(db, faults, table_name) ==
  LET keep(e) == e.type = "trigger" /\ e.tbl_name = table_name
      rows == RowsWhere(db.master, keep)
  IN IF Fails(faults, "triggers", table_name) THEN Err
     ELSE Ok([i \in 1..Len(rows) |-> rows[i].name])

\* analyze_table_details(db_path, table_name): GetTableDetail.  The
\* statement text falls back to the placeholder; the other three fetches
\* propagate their error with `?`.
analyze_table_details(db, faults, table_name) ==
  LET columns == ColumnsQuery(db, faults, table_name)
      foreign_keys == ForeignKeysQuery(db, faults, table_name)
      triggers == TriggersQuery(db, faults, table_name)
  IN IF Fails(faults, "open", NoObject) THEN Err
     ELSE IF ~columns.ok THEN Err
     ELSE IF ~foreign_keys.ok THEN Err
     ELSE IF ~triggers.ok THEN Err
     ELSE Ok([ddl |-> UnwrapOr(DdlQuery(db, faults, table_name),
                               DdlPlaceholder),
              columns |-> columns.val,
              foreign_keys |-> foreign_keys.val,
              triggers |-> triggers.val])

\* ------------------------------------------------------------------- state

VARIABLES
  db,             \* the database file at db_path
  pc,             \* main's position: "main", "run" (in run_app), "exit"
  tables,         \* App.tables
  indexes,        \* App.indexes
  table_details,  \* App.table_details, an Option
  list_state,     \* App.list_state: [selected |-> an Option of a list index]
  scroll_offset,  \* App.scroll_offset, a u16
  db_path,        \* App.db_path
  total_size,     \* App.total_size
  view_mode,      \* App.view_mode: [tag, name]
  key,            \* the input the key loop processed last
  call,           \* the engine call made last: [op, table_name, faults]
  result,         \* what that call returned
  nexts,          \* how many times in a row next ran since the selection
                  \* was put on the first data row; -1 when not counting
  scroll_before,  \* App.scroll_offset before the last input was processed
  repeated,       \* the input processed last was the one processed before it
  terminal,       \* the terminal: [raw, alternate], raw mode enabled and
                  \* the alternate screen entered
  threads         \* the threads that run analyze_database at the same
                  \* time, each with its locals; none in the program itself

app == <<tables, indexes, table_details, list_state, scroll_offset, db_path,
         total_size, view_mode>>
vars == <<db, pc, tables, indexes, table_details, list_state, scroll_offset,
          db_path, total_size, view_mode, key, call, result, nexts,
          scroll_before, repeated, terminal, threads>>

\* u16::MAX, where saturating_add stops.
U16Max == 65535
\* The two header rows every rendered list starts with.
HeaderRows == 2

\* ViewMode
Tables == [tag |-> "Tables", name |-> <<>>]
Indexes(table_name) == [tag |-> "Indexes", name |-> table_name]
TableInfo(table_name) == [tag |-> "TableInfo", name |-> table_name]

NoCall == [op |-> "none", table_name |-> <<>>, faults |-> {}]
Called(op, table_name, faults) ==
  [op |-> op, table_name |-> table_name, faults |-> faults]
NoResult == Err

\* The path given on the command line.
Path == <<"d", "b">>

\* ------------------------------------------------------------------ App

\* ListState::select
Select(state, index) == [state EXCEPT !.selected = index]

\* tables.iter().map(|t| t.size_bytes).sum()
TotalSize(ts) == SumSeq([i \in 1..Len(ts) |-> ts[i].size_bytes])

\* The length of the list the view shows (App::next, App::previous).
ListLen ==
  CASE view_mode.tag = "Tables" -> Len(tables)
    [] view_mode.tag = "Indexes" -> Len(indexes)
    [] view_mode.tag = "TableInfo" -> 0

\* A variant of NextIndex that wraps one row too late.
NextIndexWrapsLate(len, selected) ==
  IF selected = None THEN HeaderRows
  ELSE IF selected[1] >= len + HeaderRows THEN HeaderRows
  ELSE selected[1] + 1

\* App::next: the new selection.
NextIndex(len, selected) ==
  IF selected = None THEN HeaderRows
  ELSE IF selected[1] >= len + HeaderRows - 1 THEN HeaderRows
  ELSE selected[1] + 1

\* A variant of PreviousIndex that wraps to the row past the last.
PreviousIndexWrapsPast(len, selected) ==
  IF selected = None THEN HeaderRows
  ELSE IF selected[1] <= HeaderRows THEN len + HeaderRows
  ELSE selected[1] - 1

\* App::previous: the new selection.
PreviousIndex(len, selected) ==
  IF selected = None THEN HeaderRows
  ELSE IF selected[1] <= HeaderRows THEN len + HeaderRows - 1
  ELSE selected[1] - 1

\* App::next
next ==
  /\ list_state' = IF ListLen = 0 THEN list_state
                   ELSE Select(list_state,
                               Some(NextIndex(ListLen, list_state.selected)))
  /\ UNCHANGED <<tables, indexes, table_details, scroll_offset, db_path,
                 total_size, view_mode>>

\* App::previous
previous ==
  /\ list_state' = IF ListLen = 0 THEN list_state
                   ELSE Select(list_state,
                               Some(PreviousIndex(ListLen, list_state.selected)))
  /\ UNCHANGED <<tables, indexes, table_details, scroll_offset, db_path,
                 total_size, view_mode>>

\* A variant of SaturatingSub1 that does not stop at zero.
Sub1(x) == x - 1

\* A variant of SaturatingAdd1 that wraps: u16::wrapping_add(1).
WrappingAdd1(x) == (x + 1) % (U16Max + 1)

\* The scroll offsets the model follows: the MaxScroll lowest and the
\* MaxScroll highest of u16.
ScrollModelled(x) == x <= MaxScroll \/ x >= U16Max - MaxScroll

\* u16::saturating_add(1), u16::saturating_sub(1)
SaturatingAdd1(x) == IF x >= U16Max THEN U16Max ELSE x + 1
SaturatingSub1(x) == IF x <= 0 THEN 0 ELSE x - 1

\* App::scroll_down
scroll_down ==
  /\ scroll_offset' = SaturatingAdd1(scroll_offset)
  /\ UNCHANGED <<tables, indexes, table_details, list_state, db_path,
                 total_size, view_mode>>

\* App::scroll_up
scroll_up ==
  /\ scroll_offset' = SaturatingSub1(scroll_offset)
  /\ UNCHANGED <<tables, indexes, table_details, list_state, db_path,
                 total_size, view_mode>>

\* A variant of AppNew that forgets the header rows: select(Some(0)).
AppNewSelectsHeader(path, ts) ==
  [tables |-> ts, indexes |-> <<>>, table_details |-> None,
   list_state |-> [selected |-> IF ts # <<>> THEN Some(0) ELSE None],
   scroll_offset |-> 0, db_path |-> path, total_size |-> TotalSize(ts),
   view_mode |-> Tables]

\* App::new(db_path, tables): the fields of the new App.
AppNew(path, ts) ==
  [tables |-> ts, indexes |-> <<>>, table_details |-> None,
   list_state |-> [selected |-> IF ts # <<>> THEN Some(HeaderRows) ELSE None],
   scroll_offset |-> 0, db_path |-> path, total_size |-> TotalSize(ts),
   view_mode |-> Tables]

\* The App fields become those of the record a.
Becomes(a) ==
  /\ tables' = a.tables
  /\ indexes' = a.indexes
  /\ table_details' = a.table_details
  /\ list_state' = a.list_state
  /\ scroll_offset' = a.scroll_offset
  /\ db_path' = a.db_path
  /\ total_size' = a.total_size
  /\ view_mode' = a.view_mode

\* nexts, scroll_before and repeated after a step: isNext says the step ran
\* App::next on a list.
Track(isNext) ==
  /\ nexts' =
       IF isNext /\ nexts >= 0 /\ nexts < MaxNexts THEN nexts + 1
       ELSE IF /\ list_state'.selected = Some(HeaderRows)
               /\ view_mode'.tag \in {"Tables", "Indexes"}
            THEN 0
       ELSE -1
  /\ scroll_before' = scroll_offset
  /\ repeated' = (pc = "run" /\ key' = key)

\* The faults the model injects into the engine calls of the program: none,
\* or the one query whose failure the call propagates.
ProgramFaults(op) ==
  {{}, {Fault("open", NoObject)}} \cup
  (CASE op = "analyze_database" -> {{Fault("tables", NoObject)}}
     [] op = "analyze_indexes" -> {{Fault("indexes", NoObject)}}
     [] op = "analyze_table_details" -> {})

\* -------------------------------------------------------------------- main

\* The terminal as the program finds it and should leave it.
Cooked == [raw |-> FALSE, alternate |-> FALSE]

\* The step of the terminal setup that returns an error, "none" when all
\* succeed: enable_raw_mode()?, execute!(EnterAlternateScreen, ..)?,
\* Terminal::new(backend)?.
SetupFailures ==
  {"none", "enable_raw_mode", "EnterAlternateScreen", "Terminal::new"}

\* The terminal after the setup up to its failing step.
AfterSetup(failure) ==
  CASE failure = "enable_raw_mode" -> Cooked
    [] failure = "EnterAlternateScreen" -> [raw |-> TRUE, alternate |-> FALSE]
    [] failure = "Terminal::new" -> [raw |-> TRUE, alternate |-> TRUE]
    [] failure = "none" -> [raw |-> TRUE, alternate |-> TRUE]

\* main up to the call of run_app: the full scan, the exit on an error or
\* on an empty result, the terminal setup, each step of which returns its
\* error with `?`, App::new.
Main(faults, failure) ==
  /\ pc = "main"
  /\ LET r == analyze_database(db, faults)
     IN /\ call' = Called("analyze_database", <<>>, faults)
        /\ result' = r
        /\ IF r.ok /\ r.val # <<>>
             THEN /\ terminal' = AfterSetup(failure)
                  /\ IF failure = "none"
                       THEN pc' = "run" /\ Becomes(AppNew(Path, r.val))
                       ELSE pc' = "exit" /\ UNCHANGED app
             ELSE /\ failure = "none"
                  /\ pc' = "exit"
                  /\ UNCHANGED terminal
                  /\ UNCHANGED app
  /\ UNCHANGED <<db, threads, key>>
  /\ Track(FALSE)

\* The step of the restore that returns an error, "none" when all succeed:
\* disable_raw_mode()?, execute!(LeaveAlternateScreen, ..)?,
\* terminal.show_cursor()?.
RestoreFailures ==
  {"none", "disable_raw_mode", "LeaveAlternateScreen", "show_cursor"}

\* main after run_app returned, with Ok or with an error: the restore.
Restore(failure) ==
  /\ pc = "restore"
  /\ pc' = "exit"
  /\ terminal' =
       CASE failure = "disable_raw_mode" -> terminal
         [] failure = "LeaveAlternateScreen" -> [terminal EXCEPT !.raw = FALSE]
         [] failure \in {"show_cursor", "none"} -> Cooked
  /\ UNCHANGED <<db, threads, key, call, result, nexts, scroll_before, repeated>>
  /\ UNCHANGED app

\* A variant of SelectedTable that forgets the header rows: tables.get(i).
SelectedTableNoOffset ==
  IF list_state.selected = None THEN None
  ELSE LET i == list_state.selected[1]
       IN IF i < Len(tables) THEN Some(tables[i + 1]) ELSE None

\* The table the selection is on, an Option: app.tables.get(i - 2) under
\* Some(i) = selected and i >= 2.
SelectedTable ==
  IF list_state.selected = None THEN None
  ELSE LET i == list_state.selected[1]
       IN IF i >= HeaderRows /\ i - HeaderRows < Len(tables)
            THEN Some(tables[i - HeaderRows + 1])
            ELSE None

\* KeyCode::Char('q')
KeyQuit ==
  /\ pc = "run"
  /\ pc' = "restore"
  /\ key' = "q"
  /\ call' = NoCall /\ result' = NoResult
  /\ UNCHANGED <<db, threads, nexts, scroll_before, repeated, terminal>>
  /\ UNCHANGED app

\* KeyCode::Down | KeyCode::Char('j').  The model stops scrolling where the
\* offset would leave the offsets it follows.
KeyDown ==
  /\ pc = "run"
  /\ view_mode.tag = "TableInfo" =>
       ScrollModelled(SaturatingAdd1(scroll_offset))
  /\ IF view_mode.tag = "TableInfo" THEN scroll_down ELSE next
  /\ key' = "Down"
  /\ call' = NoCall /\ result' = NoResult
  /\ Track(view_mode.tag # "TableInfo" /\ ListLen > 0)
  /\ UNCHANGED <<db, threads, pc, terminal>>

\* KeyCode::Up | KeyCode::Char('k').  The model stops scrolling where the
\* offset would leave the offsets it follows.
KeyUp ==
  /\ pc = "run"
  /\ view_mode.tag = "TableInfo" =>
       ScrollModelled(SaturatingSub1(scroll_offset))
  /\ IF view_mode.tag = "TableInfo" THEN scroll_up ELSE previous
  /\ key' = "Up"
  /\ call' = NoCall /\ result' = NoResult
  /\ Track(FALSE)
  /\ UNCHANGED <<db, threads, pc, terminal>>

\* A variant of IgnoreError that clears the selection of the view it stays
\* in.
IgnoreErrorClearsSelection ==
  /\ list_state' = Select(list_state, None)
  /\ UNCHANGED <<tables, indexes, table_details, scroll_offset, db_path,
                 total_size, view_mode>>

\* Err(_) => {}: a failed fetch is ignored.
IgnoreError == UNCHANGED app

\* A variant of KeyEnter without the test of the view: Enter drills into
\* the table at the selection from every view.
KeyEnterAnyView(faults) ==
  /\ pc = "run"
  /\ key' = "Enter"
  /\ IF SelectedTable # None
       THEN LET table == SelectedTable[1]
                r == analyze_indexes(db, faults, table.name)
            IN /\ call' = Called("analyze_indexes", table.name, faults)
               /\ result' = r
               /\ pc' = IF r = Panic THEN "exit" ELSE pc
               /\ IF r.ok
                    THEN /\ indexes' = r.val
                         /\ view_mode' = Indexes(table.name)
                         /\ list_state' =
                              Select(list_state,
                                     IF r.val = <<>> THEN None
                                     ELSE Some(HeaderRows))
                         /\ UNCHANGED <<tables, table_details, scroll_offset,
                                        db_path, total_size>>
                    ELSE IF r = Panic THEN UNCHANGED app
                    ELSE IgnoreError
       ELSE /\ faults = {}
            /\ call' = NoCall /\ result' = NoResult
            /\ UNCHANGED pc
            /\ UNCHANGED app
  /\ Track(FALSE)
  /\ UNCHANGED <<db, threads, terminal>>

\* KeyCode::Enter: drill into the indexes of the selected table.  A panic
\* of analyze_indexes unwinds out of run_app and main: the process ends
\* where it is.
KeyEnter(faults) ==
  /\ pc = "run"
  /\ key' = "Enter"
  /\ IF view_mode.tag = "Tables" /\ SelectedTable # None
       THEN LET table == SelectedTable[1]
                r == analyze_indexes(db, faults, table.name)
            IN /\ call' = Called("analyze_indexes", table.name, faults)
               /\ result' = r
               /\ pc' = IF r = Panic THEN "exit" ELSE pc
               /\ IF r.ok
                    THEN /\ indexes' = r.val
                         /\ view_mode' = Indexes(table.name)
                         /\ list_state' =
                              Select(list_state,
                                     IF r.val = <<>> THEN None
                                     ELSE Some(HeaderRows))
                         /\ UNCHANGED <<tables, table_details, scroll_offset,
                                        db_path, total_size>>
                    ELSE IF r = Panic THEN UNCHANGED app
                    ELSE IgnoreError
       ELSE /\ faults = {}
            /\ call' = NoCall /\ result' = NoResult
            /\ UNCHANGED pc
            /\ UNCHANGED app
  /\ Track(FALSE)
  /\ UNCHANGED <<db, threads, terminal>>

\* A variant of ShowDetails that does not store the fetched details.
ShowDetailsKeepsDetails(details, table_name) ==
  /\ view_mode' = TableInfo(table_name)
  /\ list_state' = Select(list_state, None)
  /\ scroll_offset' = 0
  /\ UNCHANGED <<tables, indexes, table_details, db_path, total_size>>

\* A variant of ShowDetails without reset_scroll.
ShowDetailsKeepsScroll(details, table_name) ==
  /\ table_details' = Some(details)
  /\ view_mode' = TableInfo(table_name)
  /\ list_state' = Select(list_state, None)
  /\ UNCHANGED <<tables, indexes, scroll_offset, db_path, total_size>>

\* The Ok arm of both fetches of KeyCode::Char('i').
ShowDetails(details, table_name) ==
  /\ table_details' = Some(details)
  /\ view_mode' = TableInfo(table_name)
  /\ list_state' = Select(list_state, None)
  /\ scroll_offset' = 0
  /\ UNCHANGED <<tables, indexes, db_path, total_size>>

\* The table KeyCode::Char('i') fetches the details of, an Option.
InfoTarget ==
  CASE view_mode.tag = "Tables" ->
         IF SelectedTable = None THEN None ELSE Some(SelectedTable[1].name)
    [] view_mode.tag = "Indexes" -> Some(view_mode.name)
    [] view_mode.tag = "TableInfo" -> None

\* KeyCode::Char('i'): show the details of a table.
KeyInfo(faults) ==
  /\ pc = "run"
  /\ key' = "i"
  /\ IF InfoTarget # None
       THEN LET table_name == InfoTarget[1]
                r == analyze_table_details(db, faults, table_name)
            IN /\ call' = Called("analyze_table_details", table_name, faults)
               /\ result' = r
               /\ IF r.ok THEN ShowDetails(r.val, table_name)
                          ELSE IgnoreError
       ELSE /\ faults = {}
            /\ call' = NoCall /\ result' = NoResult
            /\ UNCHANGED app
  /\ Track(FALSE)
  /\ UNCHANGED <<db, threads, pc, terminal>>

\* A variant of KeyBack that leaves the selection as it is.
KeyBackKeepsSelection ==
  /\ pc = "run"
  /\ key' = "Back"
  /\ IF view_mode.tag \in {"Indexes", "TableInfo"}
       THEN /\ view_mode' = Tables
            /\ UNCHANGED <<tables, indexes, table_details, list_state,
                           scroll_offset, db_path, total_size>>
       ELSE UNCHANGED app
  /\ call' = NoCall /\ result' = NoResult
  /\ Track(FALSE)
  /\ UNCHANGED <<db, threads, pc, terminal>>

\* KeyCode::Backspace | KeyCode::Left | KeyCode::Char('h')
KeyBack ==
  /\ pc = "run"
  /\ key' = "Back"
  /\ IF view_mode.tag \in {"Indexes", "TableInfo"}
       THEN /\ view_mode' = Tables
            /\ list_state' = Select(list_state, Some(HeaderRows))
            /\ UNCHANGED <<tables, indexes, table_details, scroll_offset,
                           db_path, total_size>>
       ELSE UNCHANGED app
  /\ call' = NoCall /\ result' = NoResult
  /\ Track(FALSE)
  /\ UNCHANGED <<db, threads, pc, terminal>>

\* Any other key, and any event that is not a key: nothing changes.
KeyOther ==
  /\ pc = "run"
  /\ key' = "other"
  /\ call' = NoCall /\ result' = NoResult
  /\ UNCHANGED <<db, threads, pc, terminal>>
  /\ UNCHANGED app
  /\ Track(FALSE)

\* terminal.clear(), terminal.draw() or event::read() returns an error and
\* run_app returns it with `?`.
LoopError ==
  /\ pc = "run"
  /\ pc' = "restore"
  /\ key' = "error"
  /\ call' = NoCall /\ result' = NoResult
  /\ UNCHANGED <<db, threads, nexts, scroll_before, repeated, terminal>>
  /\ UNCHANGED app

\* The database files the program is run on: the statistics view present,
\* b and ix1 the largest objects.
ProgramPicks ==
  { {}, {6}, {2, 8}, {1, 2, 3, 8}, {2, 4, 7}, 1..Len(Candidates) }
\* 'CREATE INDEX " WHERE " ON a(x)': the statement of an index whose quoted
\* name holds the text of the WHERE token.
SqlIxWhere ==
  <<"C", "R", "E", "A", "T", "E", " ", "I", "N", "D", "E", "X", " ", "\"",
    " ", "W", "H", "E", "R", "E", " ", "\"", " ", "O", "N", " ", "a", "(",
    "x", ")">>
\* A database with table a and that index.
DatabaseIxWhere ==
  Database(<<TableEntry(TblA),
             IndexEntry(<<" ", "W", "H", "E", "R", "E", " ">>, TblA,
                        Some(SqlIxWhere))>>,
           [n \in {TblA, <<" ", "W", "H", "E", "R", "E", " ">>} |-> 1], TRUE)
ProgramDatabases ==
  { d \in DatabasesOver({Pick(P, 1) : P \in ProgramPicks}, {TblB, Ix1}) :
      /\ d.dbstat
      /\ \A n \in DOMAIN d.pages :
           d.pages[n] = IF n \in {TblB, Ix1} THEN MaxSize ELSE 1 }
  \cup {DatabaseIxWhere}

\* Before App::new runs there is no App: the fields hold those of an App
\* without tables.
Unbuilt ==
  LET a == AppNew(Path, <<>>)
  IN /\ tables = a.tables
     /\ indexes = a.indexes
     /\ table_details = a.table_details
     /\ list_state = a.list_state
     /\ scroll_offset = a.scroll_offset
     /\ db_path = a.db_path
     /\ total_size = a.total_size
     /\ view_mode = a.view_mode

Init ==
  /\ db \in ProgramDatabases
  /\ pc = "main"
  /\ Unbuilt
  /\ key = "none"
  /\ call = NoCall
  /\ result = NoResult
  /\ nexts = -1
  /\ scroll_before = 0
  /\ repeated = FALSE
  /\ terminal = Cooked
  /\ threads = <<>>

Next ==
  \/ \E faults \in ProgramFaults("analyze_database"),
        failure \in SetupFailures : Main(faults, failure)
  \/ KeyQuit
  \/ KeyDown
  \/ KeyUp
  \/ \E faults \in ProgramFaults("analyze_indexes") : KeyEnter(faults)
  \/ \E faults \in ProgramFaults("analyze_table_details") : KeyInfo(faults)
  \/ KeyBack
  \/ KeyOther
  \/ LoopError
  \/ \E failure \in RestoreFailures : Restore(failure)

Spec == Init /\ [][Next]_vars

\* ------------------------------------------------- the top of the scroll

\* The program after it showed the details of one of its tables and
\* processed KeyCode::Down U16Max - MaxScroll times: the detail view with
\* the offset that many lines down.
InitScroll ==
  /\ db \in ProgramDatabases
  /\ pc = "run"
  /\ LET r == analyze_database(db, {})
     IN /\ r.ok /\ r.val # <<>>
        /\ \E i \in 1..Len(r.val) :
             LET table_name == r.val[i].name
                 details == analyze_table_details(db, {}, table_name)
                 a == AppNew(Path, r.val)
             IN /\ details.ok
                /\ tables = a.tables
                /\ indexes = a.indexes
                /\ table_details = Some(details.val)
                /\ list_state = Select(a.list_state, None)
                /\ scroll_offset = U16Max - MaxScroll
                /\ db_path = a.db_path
                /\ total_size = a.total_size
                /\ view_mode = TableInfo(table_name)
  /\ key = "Down"
  /\ call = NoCall
  /\ result = NoResult
  /\ nexts = -1
  /\ scroll_before = U16Max - MaxScroll - 1
  /\ repeated = TRUE
  /\ terminal = AfterSetup("none")
  /\ threads = <<>>

\* run_app from there on, and the restore.
NextScroll ==
  \/ KeyQuit
  \/ KeyDown
  \/ KeyUp
  \/ \E faults \in ProgramFaults("analyze_indexes") : KeyEnter(faults)
  \/ \E faults \in ProgramFaults("analyze_table_details") : KeyInfo(faults)
  \/ KeyBack
  \/ KeyOther
  \/ LoopError
  \/ \E failure \in RestoreFailures : Restore(failure)

SpecScroll == InitScroll /\ [][NextScroll]_vars

\* ------------------------------------------- the engine called on its own

\* The engine functions are public and the integration tests call each on
\* its own, with any table name: a run is one such call.  The names the
\* probes pass.
ProbeNames == {TblA, TblB, TblC, TblData, TblSeq, TblQuote, NoSuch}

\* At most one query of a call fails.
OneFault(queries) == {{}} \cup {{f} : f \in queries}

DatabaseFaults(d) ==
  OneFault({Fault("open", NoObject), Fault("tables", NoObject)} \cup
           {Fault(q, n) : q \in {"row_count", "size", "index_count",
                                 "index_size"},
                          n \in TablesOf(d.master)})
IndexesFaults(d) ==
  OneFault({Fault("open", NoObject), Fault("indexes", NoObject)} \cup
           {Fault("size", n) : n \in NamesOf(d.master) \ TablesOf(d.master)})
DetailsFaults(table_name) ==
  OneFault({Fault("open", NoObject)} \cup
           {Fault(q, table_name) :
              q \in {"ddl", "columns", "foreign_keys", "triggers"}})

\* analyze_database(&db_path)
ProbeTables(faults) ==
  /\ pc = "probe"
  /\ call' = Called("analyze_database", <<>>, faults)
  /\ result' = analyze_database(db, faults)
  /\ pc' = "done"
  /\ UNCHANGED <<db, threads, key, nexts, scroll_before, repeated, terminal>>
  /\ UNCHANGED app

\* analyze_indexes(&db_path, table_name)
ProbeIndexes(table_name, faults) ==
  /\ pc = "probe"
  /\ call' = Called("analyze_indexes", table_name, faults)
  /\ result' = analyze_indexes(db, faults, table_name)
  /\ pc' = "done"
  /\ UNCHANGED <<db, threads, key, nexts, scroll_before, repeated, terminal>>
  /\ UNCHANGED app

\* analyze_table_details(&db_path, table_name)
ProbeDetails(table_name, faults) ==
  /\ pc = "probe"
  /\ call' = Called("analyze_table_details", table_name, faults)
  /\ result' = analyze_table_details(db, faults, table_name)
  /\ pc' = "done"
  /\ UNCHANGED <<db, threads, key, nexts, scroll_before, repeated, terminal>>
  /\ UNCHANGED app

\* The state of a run that calls the engine once on the database d.
InitProbe(d) ==
  /\ db = d
  /\ pc = "probe"
  /\ Unbuilt
  /\ key = "none"
  /\ call = NoCall
  /\ result = NoResult
  /\ nexts = -1
  /\ scroll_before = 0
  /\ repeated = FALSE
  /\ terminal = Cooked
  /\ threads = <<>>

\* One call of ListTables on any catalog of the model without the table
\* q"t (whose row count the details runs read), the page bytes of the
\* tables a, b and c ranging over 1..MaxSize.
InitTables ==
  \E d \in DatabasesOver({m \in Masters : TblQuote \notin NamesOf(m)},
                         {TblA, TblB, TblC}) : InitProbe(d)
NextTables == \E faults \in DatabaseFaults(db) : ProbeTables(faults)
SpecTables == InitTables /\ [][NextTables]_vars

\* One call of ListIndexes on any catalog of the model, the page bytes of
\* the indexes ix1 and ix2 ranging over 1..MaxSize.
InitIndexes == \E d \in DatabasesOver(Masters, {Ix1, Ix2}) : InitProbe(d)
NextIndexes ==
  \E table_name \in ProbeNames, faults \in IndexesFaults(db) :
    ProbeIndexes(table_name, faults)
SpecIndexes == InitIndexes /\ [][NextIndexes]_vars

\* One call of GetTableDetail on any catalog of the model; the call reads
\* no page bytes.
InitDetails == \E d \in DatabasesOver(Masters, {}) : InitProbe(d)
NextDetails ==
  \E table_name \in ProbeNames :
    \E faults \in DetailsFaults(table_name) :
      ProbeDetails(table_name, faults)
SpecDetails == InitDetails /\ [][NextDetails]_vars

\* ------------------------------------------------ the parser on any text

\* 'CREATE UNIQUE INDEX ix ON t (a, b) WHERE a IS NOT NULL'
SqlExample ==
  <<"C", "R", "E", "A", "T", "E", " ", "U", "N", "I", "Q", "U", "E", " ",
    "I", "N", "D", "E", "X", " ", "i", "x", " ", "O", "N", " ", "t", " ",
    "(", "a", ",", " ", "b", ")", " ", "W", "H", "E", "R", "E", " ", "a",
    " ", "I", "S", " ", "N", "O", "T", " ", "N", "U", "L", "L">>

\* The pieces the statement texts are made of: the parentheses, the WHERE
\* token in two letter cases, a column name, a name outside ASCII whose
\* upper case is shorter and one whose upper case is longer, a space.
Tokens ==
  << <<"(">>, <<")">>, Where, <<" ", "w", "h", "e", "r", "e", " ">>,
     <<"x">>, DotlessI, NApostrophe, <<" ">> >>

\* The texts of exactly n tokens.
RECURSIVE TextsOf(_)
TextsOf(n) ==
  IF n = 0 THEN {<<>>}
  ELSE {t \o Tokens[k] : t \in TextsOf(n - 1), k \in 1..Len(Tokens)}

Texts ==
  UNION {TextsOf(n) : n \in 0..MaxTokens}
    \cup {SqlExample, SqlIx1, SqlIx2, SqlIxWhere}

\* One call of ListIndexes on table a of a database whose one index ix1 has
\* any of the statement texts.
InitParser ==
  \E text \in Texts :
    InitProbe(Database(<<TableEntry(TblA), IndexEntry(Ix1, TblA, Some(text))>>,
                       [n \in {TblA, Ix1} |-> 1], TRUE))
NextParser == ProbeIndexes(TblA, {})
SpecParser == InitParser /\ [][NextParser]_vars

\* ------------------------------------- analyze_database from several threads

\* The locals of a thread that has not yet started analyze_database.
ThreadStart ==
  [pc |-> "open", conn |-> None, table_names |-> <<>>, i |-> 1,
   row_count |-> 0, size_bytes |-> 0, index_count |-> 0, tables |-> <<>>,
   ret |-> None]

\* The table the loop of thread t is at.
TableAt(t) == threads[t].table_names[threads[t].i]

\* A variant of Push with one vector shared by all threads.
PushShared(t, info) ==
  [u \in DOMAIN threads |->
     [threads[u] EXCEPT !.tables = Append(@, info),
                        !.i = IF u = t THEN @ + 1 ELSE @,
                        !.pc = IF u # t THEN @
                               ELSE IF threads[t].i = Len(threads[t].table_names)
                                 THEN "sort" ELSE "row_count"]]

\* tables.push(TableInfo { .. }) on the vector of thread t, and the loop's
\* step to the next table.
Push(t, info) ==
  [threads EXCEPT ![t].tables = Append(@, info),
                  ![t].i = @ + 1,
                  ![t].pc = IF threads[t].i = Len(threads[t].table_names)
                              THEN "sort" ELSE "row_count"]

\* A step of a thread changes nothing but the thread's locals.
ThreadStep(t, at) ==
  /\ pc = "threads"
  /\ t \in DOMAIN threads
  /\ threads[t].pc = at
  /\ UNCHANGED <<db, pc, key, call, result, nexts, scroll_before, repeated, terminal>>
  /\ UNCHANGED app

\* Connection::open(db_path): a connection of the thread's own.
ThreadOpen(t) ==
  /\ ThreadStep(t, "open")
  /\ threads' = [threads EXCEPT ![t].conn = Some(t), ![t].pc = "names"]

\* The table enumeration.
ThreadNames(t) ==
  /\ ThreadStep(t, "names")
  /\ LET table_names == TableNamesQuery(db)
     IN threads' = [threads EXCEPT
                      ![t].table_names = table_names,
                      ![t].pc = IF table_names = <<>> THEN "sort"
                                ELSE "row_count"]

\* The row count of the table the loop is at.
ThreadRowCount(t) ==
  /\ ThreadStep(t, "row_count")
  /\ threads' = [threads EXCEPT
                   ![t].row_count = UnwrapOr(RowCountQuery(db, {}, TableAt(t)), 0),
                   ![t].pc = "size"]

\* Its size.
ThreadSize(t) ==
  /\ ThreadStep(t, "size")
  /\ threads' = [threads EXCEPT
                   ![t].size_bytes = UnwrapOr(TableSizeQuery(db, {}, TableAt(t)), 0),
                   ![t].pc = "index_count"]

\* Its index count.
ThreadIndexCount(t) ==
  /\ ThreadStep(t, "index_count")
  /\ threads' = [threads EXCEPT
                   ![t].index_count =
                     UnwrapOr(IndexCountQuery(db, {}, TableAt(t)), 0),
                   ![t].pc = "index_size"]

\* Its index size, and the push of its TableInfo.
ThreadIndexSize(t) ==
  /\ ThreadStep(t, "index_size")
  /\ threads' =
       Push(t, [name |-> TableAt(t),
                size_bytes |-> threads[t].size_bytes,
                row_count |-> threads[t].row_count,
                index_count |-> threads[t].index_count,
                index_size_bytes |->
                  UnwrapOr(IndexSizeQuery(db, {}, TableAt(t)), 0)])

\* The sort and the return.
ThreadReturn(t) ==
  /\ ThreadStep(t, "sort")
  /\ threads' = [threads EXCEPT
                   ![t].ret = Some(Ok(SortBySizeDesc(threads[t].tables))),
                   ![t].pc = "done"]

InitThreads ==
  /\ db \in ProgramDatabases
  /\ pc = "threads"
  /\ Unbuilt
  /\ key = "none"
  /\ call = NoCall
  /\ result = NoResult
  /\ nexts = -1
  /\ scroll_before = 0
  /\ repeated = FALSE
  /\ terminal = Cooked
  /\ threads = [t \in 1..NumThreads |-> ThreadStart]

NextThreads ==
  \E t \in 1..NumThreads :
    \/ ThreadOpen(t)
    \/ ThreadNames(t)
    \/ ThreadRowCount(t)
    \/ ThreadSize(t)
    \/ ThreadIndexCount(t)
    \/ ThreadIndexSize(t)
    \/ ThreadReturn(t)

SpecThreads == InitThreads /\ [][NextThreads]_vars

\* ------------------------------------------------------------------ claims

\* The selection as a list index, 0 for none.
Sel == IF list_state.selected = None THEN 0 ELSE list_state.selected[1]

\* The step processed a fetch-triggering input and the fetch failed.
FetchFailedStep == key' \in {"Enter", "i"} /\ call'.op # "none" /\ result' = Err

\* C1: whenever a fetch-triggering input (Enter in Tables, i in Tables or
\* Indexes) is processed and its fetch returns an error, the view, the
\* selection, the scroll offset and the loaded tables, indexes and details
\* are what they were before the input.
C1_FailStatic ==
  [][FetchFailedStep =>
       /\ view_mode' = view_mode
       /\ list_state' = list_state
       /\ scroll_offset' = scroll_offset
       /\ indexes' = indexes
       /\ table_details' = table_details
       /\ tables' = tables]_vars

\* C1 witness: a show-detail input failed in the Indexes view, on a list
\* with a selection, after an earlier detail visit had left a scroll offset
\* and details behind.
C1_Witness ==
  /\ key = "i" /\ call.op = "analyze_table_details" /\ ~result.ok
  /\ view_mode.tag = "Indexes" /\ Sel >= HeaderRows
  /\ scroll_offset > 0 /\ table_details # None

\* C2: in the Tables view with the selection on list index s, s >= 2 and
\* s - 2 < Len(tables), an Enter whose ListIndexes fetch succeeds fetches
\* the indexes of tables[s - 2] (0-based), moves the view to Indexes of
\* that table, stores the fetched sequence as the loaded indexes, and
\* selects list index 2 if the sequence is non-empty and nothing if it is
\* empty.
C2_DrillIntoIndexes ==
  [][(/\ view_mode.tag = "Tables"
      /\ Sel >= 2 /\ Sel - 2 < Len(tables)
      /\ key' = "Enter" /\ result'.ok)
     => LET t == tables[Sel - 1].name
        IN /\ call'.op = "analyze_indexes" /\ call'.table_name = t
           /\ result' = analyze_indexes(db, call'.faults, t)
           /\ view_mode' = Indexes(t)
           /\ indexes' = result'.val
           /\ list_state'.selected =
                IF result'.val = <<>> THEN None ELSE Some(2)]_vars

\* C2 witness: Enter on the second row of the table list, the row of table
\* a, loaded its two indexes.
C2_Witness ==
  /\ key = "Enter" /\ result.ok
  /\ Len(tables) >= 2 /\ tables[2].name = TblA
  /\ view_mode = Indexes(TblA) /\ Len(indexes) = 2 /\ Sel = 2

\* C3: an i whose GetTableDetail fetch succeeds, from Tables for the
\* selected table or from Indexes(t) for t whatever the selection is,
\* moves the view to TableInfo of that table, clears the selection and
\* sets the scroll offset to zero.
C3_ShowDetail ==
  [][(/\ \/ view_mode.tag = "Tables" /\ Sel >= 2 /\ Sel - 2 < Len(tables)
         \/ view_mode.tag = "Indexes"
      /\ key' = "i" /\ result'.ok)
     => LET t == IF view_mode.tag = "Tables" THEN tables[Sel - 1].name
                 ELSE view_mode.name
        IN /\ call'.op = "analyze_table_details" /\ call'.table_name = t
           /\ view_mode' = TableInfo(t)
           /\ list_state'.selected = None
           /\ scroll_offset' = 0]_vars

\* C3 witness: the details of b, a table without indexes whose index view
\* has no selection, were shown while an earlier visit's details of another
\* table were loaded.
C3_Witness ==
  /\ key = "i" /\ result.ok
  /\ view_mode = TableInfo(TblB) /\ table_details = Some(result.val)
  /\ indexes = <<>> /\ Sel = 0 /\ scroll_offset = 0

\* C4: Back from Indexes or TableInfo lands in Tables with the selection on
\* the first data row, list index 2, of a table list that has one; Back
\* from Tables changes nothing.
C4_Back ==
  [][key' = "Back" =>
       IF view_mode.tag \in {"Indexes", "TableInfo"}
         THEN /\ view_mode' = Tables
              /\ list_state'.selected = Some(2)
              /\ Len(tables') >= 1
         ELSE UNCHANGED app]_vars

\* C4 witness: Back landed on the first row after the indexes and the
\* details of a table had both been loaded, in a list of several tables.
C4_Witness ==
  /\ key = "Back" /\ view_mode = Tables /\ Sel = 2
  /\ Len(tables) >= 2 /\ indexes # <<>> /\ table_details # None

\* C5: in Tables or Indexes with n >= 1 data rows, k applications of next
\* in a row from the first data row leave the selection on list index
\* 2 + (k mod n): on data row k for k < n, back on the first for k = n.
C5_NextCycle ==
  nexts >= 0 =>
    /\ view_mode.tag \in {"Tables", "Indexes"}
    /\ ListLen >= 1
    /\ list_state.selected = Some(2 + (nexts % ListLen))

\* C5 witness: three applications of next on a list of three rows are back
\* on the first row.
C5_Witness == nexts = 3 /\ ListLen = 3 /\ Sel = 2 /\ key = "Down"

\* C6: in Tables or Indexes with n >= 1 data rows, previous from list index
\* 2 lands on list index n + 1 and previous from any other data row lands
\* on the index before it.
C6_Previous ==
  [][(/\ view_mode.tag \in {"Tables", "Indexes"}
      /\ ListLen >= 1
      /\ Sel >= 2 /\ Sel <= ListLen + 1
      /\ key' = "Up")
     => list_state'.selected =
          Some(IF Sel = 2 THEN ListLen + 1 ELSE Sel - 1)]_vars

\* C6 witness: previous wrapped from the first to the last of the two rows
\* of an index list.
C6_Witness ==
  key = "Up" /\ view_mode.tag = "Indexes" /\ Len(indexes) = 2 /\ Sel = 3

\* The result of the call is that of a ListTables that returned.
ListedTables ==
  IF call.op = "analyze_database" /\ result.ok THEN result.val ELSE <<>>

\* The sizes ListIndexes reports for a table on the same database with no
\* query failing.
IndexSizesOf(table_name) ==
  LET li == analyze_indexes(db, {}, table_name).val
  IN [i \in 1..Len(li) |-> li[i].size_bytes]

\* C7: for every table ListTables returns, with no query failing, the total
\* index size is the sum of the sizes ListIndexes reports for the table:
\* the bytes of the indexes its index count counts, 0 for a table whose
\* only indexes are engine-synthesized.
C7_IndexSizeOfCountedIndexes ==
  call.faults = {} =>
    \A i \in 1..Len(ListedTables) :
      ListedTables[i].index_size_bytes =
        SumSeq(IndexSizesOf(ListedTables[i].name))

C9_ReservedPrefixOnly ==
  call.op = "analyze_database" /\ result.ok =>
    \A n \in TablesOf(db.master) :
      Cardinality({i \in 1..Len(result.val) : result.val[i].name = n})
        = IF StartsWith(n, ReservedPrefix) THEN 0 ELSE 1

\* C10: the sequence ListTables returns holds every enumerated table once,
\* in descending order of size, two tables of equal size in ascending
\* order of name.
C10_SortedBySizeStable ==
  call.op = "analyze_database" /\ result.ok =>
    LET r == result.val
        enumerated == {n \in TablesOf(db.master) : ~Like(n, InternalPattern)}
    IN /\ Len(r) = Cardinality(enumerated)
       /\ {r[i].name : i \in 1..Len(r)} = enumerated
       /\ \A i, j \in 1..Len(r) :
            i < j =>
              /\ r[i].size_bytes >= r[j].size_bytes
              /\ r[i].size_bytes = r[j].size_bytes =>
                   StrLess(r[i].name, r[j].name)

\* C10 witness: three tables, the last by name the largest and first, the
\* other two of equal size in name order.
C10_Witness ==
  /\ Len(ListedTables) = 3
  /\ ListedTables[1].name = TblC
  /\ ListedTables[1].size_bytes > ListedTables[2].size_bytes
  /\ ListedTables[2].size_bytes = ListedTables[3].size_bytes
  /\ ListedTables[2].size_bytes > 0

\* The position of the catalog row of the object called name.
RowidOf(name) == CHOOSE i \in 1..Len(db.master) : db.master[i].name = name

\* C11: the sequence ListIndexes returns holds every enumerated index of
\* the table once (the catalog's indexes of the table that the internal
\* pattern does not match), in descending order of size, two indexes of
\* equal size in the order of their catalog rows.
C11_IndexesSortedBySizeStable ==
  call.op = "analyze_indexes" /\ result.ok =>
    LET r == result.val
        enumerated ==
          {i \in 1..Len(db.master) :
             /\ db.master[i].type = "index"
             /\ db.master[i].tbl_name = call.table_name
             /\ ~Like(db.master[i].name, InternalPattern)}
    IN /\ Len(r) = Cardinality(enumerated)
       /\ {r[i].name : i \in 1..Len(r)} = {db.master[i].name : i \in enumerated}
       /\ \A i, j \in 1..Len(r) :
            i < j =>
              /\ r[i].size_bytes >= r[j].size_bytes
              /\ r[i].size_bytes = r[j].size_bytes =>
                   RowidOf(r[i].name) < RowidOf(r[j].name)

\* C11 witness: ListIndexes returned two indexes of equal non-zero size in
\* catalog order, which is not their name order.
C11_Witness ==
  /\ call.op = "analyze_indexes" /\ result.ok
  /\ Len(result.val) = 2
  /\ result.val[1].name = Ix2 /\ result.val[2].name = Ix1
  /\ result.val[1].size_bytes = result.val[2].size_bytes
  /\ result.val[1].size_bytes > 0

\* The summary of the table called name in the sequence ts.
SummaryOf(ts, name) == ts[CHOOSE i \in 1..Len(ts) : ts[i].name = name]

\* C12: ListTables returns an error exactly when the open or the catalog
\* enumeration fails; when a metric query of a table fails, every table
\* the call without failure returns is still returned, the failed metric
\* is 0 and every other metric of every table is what it is without the
\* failure.
C12_MetricFailuresAbsorbed ==
  call.op = "analyze_database" =>
    LET alone == analyze_database(db, {}).val
        Expect(q, t, v) == IF Fails(call.faults, q, t) THEN 0 ELSE v
    IN /\ result.ok <=> /\ ~Fails(call.faults, "open", NoObject)
                        /\ ~Fails(call.faults, "tables", NoObject)
       /\ result.ok =>
            /\ Len(result.val) = Len(alone)
            /\ \A i \in 1..Len(alone) :
                 LET a == alone[i]
                 IN /\ \E j \in 1..Len(result.val) : result.val[j].name = a.name
                    /\ LET t == SummaryOf(result.val, a.name)
                       IN /\ t.row_count = Expect("row_count", a.name, a.row_count)
                          /\ t.size_bytes = Expect("size", a.name, a.size_bytes)
                          /\ t.index_count =
                               Expect("index_count", a.name, a.index_count)
                          /\ t.index_size_bytes =
                               Expect("index_size", a.name, a.index_size_bytes)

\* C12 witness: the row count of table a failed; ListTables returned a
\* with row count 0 and its two indexes counted, and b with its rows.
C12_Witness ==
  /\ call.op = "analyze_database" /\ result.ok
  /\ call.faults = {Fault("row_count", TblA)}
  /\ \E i, j \in 1..Len(result.val) :
       /\ result.val[i].name = TblA /\ result.val[i].row_count = 0
       /\ result.val[i].index_count = 2
       /\ result.val[j].name = TblB /\ result.val[j].row_count > 0

\* C13: ListIndexes and GetTableDetail return an error only when the open
\* of the connection fails.
C13_OnlyOpenFails ==
  call.op \in {"analyze_indexes", "analyze_table_details"} /\ ~result.ok =>
    Fails(call.faults, "open", NoObject)

\* C14: with no query failing, for a table name the catalog does not hold
\* ListIndexes returns the empty sequence and GetTableDetail returns the
\* placeholder statement text with no column, foreign key or trigger;
\* neither returns an error.
C14_ProbesOfMissingTables ==
  call.faults = {} /\ call.table_name \notin TablesOf(db.master) =>
    /\ call.op = "analyze_indexes" => result = Ok(<<>>)
    /\ call.op = "analyze_table_details" =>
         result = Ok([ddl |-> DdlPlaceholder, columns |-> <<>>,
                      foreign_keys |-> <<>>, triggers |-> <<>>])

\* C15: with no query failing, for every table name ListTables returns,
\* GetTableDetail of the name succeeds and the row count ListTables reports
\* is the number of rows of that table.
C15_NamesSafelyQuoted ==
  call.op = "analyze_table_details" /\ call.faults = {} =>
    LET listed == analyze_database(db, {}).val
    IN \A i \in 1..Len(listed) :
         listed[i].name = call.table_name =>
           /\ result.ok
           /\ listed[i].row_count = db.rows[call.table_name]

\* The statement texts of the indexes ListIndexes enumerated in the call.
ParsedRows ==
  IF call.op # "analyze_indexes" \/ result = Err THEN <<>>
  ELSE LET keep(e) == /\ e.type = "index" /\ e.tbl_name = call.table_name
                      /\ ~Like(e.name, InternalPattern) /\ e.sql # None
       IN SelectSeq(db.master, keep)

\* The 1-based positions of text s at which ' WHERE ' starts, whatever the
\* case of its letters.
WhereTokens(s) ==
  {i \in 1..(Len(s) - 6) : \A k \in 0..6 : UpperAscii(s[i + k]) = Where[k + 1]}

\* C16: the column list of a statement text without '(' is empty, and
\* that of a text with one is the text strictly between the first '(' and
\* the last ')' before the ' WHERE ' token, or the last ')' of the text
\* when it has no such token.
C16_ColumnList ==
  \A r \in 1..Len(ParsedRows) :
    LET s == ParsedRows[r].sql[1]
        opens == {i \in 1..Len(s) : s[i] = "("}
        limit == IF WhereTokens(s) = {} THEN Len(s) + 1
                 ELSE Least(WhereTokens(s))
        closes == {i \in 1..Len(s) : s[i] = ")" /\ i < limit}
        decided == opens = {} \/ (closes # {} /\ Greatest(closes) > Least(opens))
    IN decided =>
         /\ result.ok
         /\ SummaryOf(result.val, ParsedRows[r].name).columns =
              IF opens = {} THEN <<>>
              ELSE SubSeq(s, Least(opens) + 1, Greatest(closes) - 1)

\* C17: the partial clause of a statement text is present exactly when the
\* text holds a ' WHERE ' token in any letter case, and is then the text
\* after the token to the end of the statement, trimmed, in its own letter
\* case.
C17_PartialClause ==
  \A r \in 1..Len(ParsedRows) :
    LET s == ParsedRows[r].sql[1]
    IN /\ result.ok
       /\ SummaryOf(result.val, ParsedRows[r].name).partial_clause =
            IF WhereTokens(s) = {} THEN None
            ELSE Some(trim(SubSeq(s, Least(WhereTokens(s)) + 7, Len(s))))

\* C18: the scroll offset is zero after every input that entered the
\* detail view, whatever it was before, and it is never negative.
C18_ScrollResetAndNonNegative ==
  /\ scroll_offset >= 0
  /\ (key = "i" /\ call.op = "analyze_table_details" /\ result.ok) =>
       view_mode.tag = "TableInfo" /\ scroll_offset = 0

\* C18 witness: the detail view was entered with the offset an earlier
\* visit had left behind, and the offset is zero.
C18_Witness ==
  /\ key = "i" /\ call.op = "analyze_table_details" /\ result.ok
  /\ view_mode.tag = "TableInfo"
  /\ scroll_before > 0 /\ scroll_offset = 0

\* C19: whenever the process has returned, raw mode is disabled and the
\* alternate screen is left.
C19_TerminalRestored ==
  pc = "exit" => ~terminal.raw /\ ~terminal.alternate

\* C20: every thread has a connection of its own, and what a thread's
\* analyze_database returns is what the call returns when it runs alone,
\* whatever the other threads did in between.
C20_ThreadsIndependent ==
  \A t \in DOMAIN threads :
    /\ threads[t].conn \in {None, Some(t)}
    /\ threads[t].pc = "done" =>
         threads[t].ret = Some(analyze_database(db, {}))

\* C20 witness: one thread returned three tables while another is in the
\* middle of its scan, at the index count of its second table.
C20_Witness ==
  \E t, u \in DOMAIN threads :
    /\ threads[t].pc = "done" /\ Len(threads[t].ret[1].val) = 3
    /\ threads[u].pc = "index_count" /\ threads[u].i = 2

\* The selection fits the view: none in TableInfo; in Tables and Indexes
\* none exactly when the list of the view is empty, and otherwise a list
\* index from 2 to n + 1 for a list of n data rows.
SelectionFitsView ==
  IF view_mode.tag = "TableInfo" THEN list_state.selected = None
  ELSE /\ list_state.selected = None <=> ListLen = 0
       /\ list_state.selected # None =>
            /\ list_state.selected[1] >= 2
            /\ list_state.selected[1] <= ListLen + 1

\* C21: in every reachable state the selection fits the view, and a
\* movement input processed in the TableInfo view leaves the selection as
\* it is.
C21_SelectionInvariant ==
  /\ []SelectionFitsView
  /\ [][(view_mode.tag = "TableInfo" /\ key' \in {"Down", "Up"})
         => list_state' = list_state]_vars

\* C21 witness: a movement input was processed on the empty index list of
\* a table without indexes, in a table list whose selection had been on its
\* last row, and the selection is none.
C21_Witness ==
  /\ key = "Down" /\ view_mode = Indexes(TblB)
  /\ indexes = <<>> /\ list_state.selected = None
  /\ Len(tables) = 3

\* The step processed a scroll input: a Down or an Up.
ScrollInput == key' \in {"Down", "Up"}

\* C22: in the TableInfo view every Down adds exactly one to the scroll
\* offset, whatever the offset is, and every Up takes one off it unless it
\* is zero, where it stays; in the other views neither changes the offset.
C22_ScrollUnbounded ==
  [][ScrollInput =>
       scroll_offset' =
         IF view_mode.tag # "TableInfo" THEN scroll_offset
         ELSE IF key' = "Down" THEN scroll_offset + 1
         ELSE IF scroll_offset = 0 THEN 0
         ELSE scroll_offset - 1]_vars

\* C22 as amended: as C22, but a Down at offset 65535, the largest u16,
\* leaves the offset at 65535.
C22_ScrollSaturates ==
  [][ScrollInput =>
       scroll_offset' =
         IF view_mode.tag # "TableInfo" THEN scroll_offset
         ELSE IF key' = "Down"
           THEN (IF scroll_offset = U16Max THEN U16Max ELSE scroll_offset + 1)
         ELSE IF scroll_offset = 0 THEN 0
         ELSE scroll_offset - 1]_vars

\* C22 witness: a Down was processed in the detail view at offset 65535
\* and the offset is 65535.
C22_Witness ==
  /\ key = "Down" /\ view_mode.tag = "TableInfo"
  /\ scroll_before = U16Max /\ scroll_offset = U16Max

\* Both steps fetched for the same table and the fetches differ in their
\* outcome.
OutcomesDiffer ==
  /\ call.op # "none" /\ call'.op = call.op
  /\ call'.table_name = call.table_name
  /\ result' # result

\* C23: when a transition input (Enter, i, Back) is processed right after
\* the same input, and a fetch it makes returns what the first one's fetch
\* for the same table returned, nothing of the App changes; and an i in
\* TableInfo and an Enter outside Tables change nothing of it.
C23_TransitionsIdempotent ==
  [][/\ (/\ key \in {"Enter", "i", "Back"} /\ key' = key
         /\ ~OutcomesDiffer) => UNCHANGED app
     /\ (\/ key' = "i" /\ view_mode.tag = "TableInfo"
         \/ key' = "Enter" /\ view_mode.tag # "Tables") => UNCHANGED app]_vars

\* C23 witness: a second Enter in a row was processed in the index view
\* the first one had entered from a later row of the table list, with the
\* selection on the first of its two index rows.
C23_Witness ==
  /\ repeated /\ key = "Enter" /\ call = NoCall
  /\ view_mode = Indexes(TblA) /\ Len(indexes) = 2 /\ Sel = 2
  /\ Len(tables) >= 2 /\ tables[1].name # TblA

\* C24: a ListIndexes call never ends in a panic, whatever the statement
\* texts of the indexes it enumerates are.
C24_ParseTotal ==
  call.op = "analyze_indexes" => result # Panic

\* What the loaded data is in every state: the table of an Indexes view is
\* one of the loaded tables, a TableInfo view has details loaded, and the
\* total size is the sum of the sizes of the loaded tables.
LoadedFitsView ==
  /\ view_mode.tag = "Indexes" =>
       \E i \in 1..Len(tables) : tables[i].name = view_mode.name
  /\ view_mode.tag = "TableInfo" => table_details # None
  /\ total_size = SumSeq([i \in 1..Len(tables) |-> tables[i].size_bytes])

\* What a step does to the loaded data: the step that enters Indexes(t)
\* made a successful ListIndexes fetch for t and loads its result, and the
\* loaded indexes stay as they are while the view stays; the same for
\* TableInfo(t), GetTableDetail and the loaded details; and once the App
\* is constructed its tables, total size and path stay as they are.
LoadedStep ==
  /\ (view_mode.tag # "Indexes" /\ view_mode'.tag = "Indexes") =>
       /\ call'.op = "analyze_indexes"
       /\ call'.table_name = view_mode'.name
       /\ result'.ok /\ indexes' = result'.val
  /\ (view_mode.tag = "Indexes" /\ view_mode'.tag = "Indexes") =>
       view_mode' = view_mode /\ indexes' = indexes
  /\ (view_mode.tag # "TableInfo" /\ view_mode'.tag = "TableInfo") =>
       /\ call'.op = "analyze_table_details"
       /\ call'.table_name = view_mode'.name
       /\ result'.ok /\ table_details' = Some(result'.val)
  /\ (view_mode.tag = "TableInfo" /\ view_mode'.tag = "TableInfo") =>
       view_mode' = view_mode /\ table_details' = table_details
  /\ pc # "main" =>
       tables' = tables /\ total_size' = total_size /\ db_path' = db_path

\* C25: in every reachable state the loaded data fits the view, and every
\* step keeps the loaded indexes and details those of the fetch that
\* entered the view and the tables, the total size and the path those of
\* the construction.
C25_LoadedMatchesView == []LoadedFitsView /\ [][LoadedStep]_vars

\* C25 witness: after a movement in the index view of table a, entered
\* while the details of another table were loaded, the loaded indexes are
\* the two the fetch for a returns.
C25_Witness ==
  /\ key = "Down" /\ view_mode = Indexes(TblA) /\ Sel = 3
  /\ indexes = analyze_indexes(db, {}, TblA).val /\ Len(indexes) = 2
  /\ table_details # None
  /\ table_details # Some(analyze_table_details(db, {}, TblA).val)

====
